---- MODULE Spec2Model ----
(***************************************************************************)
(* A model of the two scripts of the repository:                           *)
(*   get_google_search_result.py  get_google_search_results (pagination)   *)
(*                                preprocess_to_dataframe (key-path         *)
(*                                extraction and tabularisation)            *)
(*   get_gbiz_info.py             GbizInfoFetcher.fetch_data,               *)
(*                                GbizInfoFetcher._get_value_safely         *)
(* Each program is sequential; a run of the model is one call of one of    *)
(* the three functions, with its inputs and the answers of the remote      *)
(* service drawn from bounded sets.                                        *)
(***************************************************************************)
EXTENDS Integers, Sequences, FiniteSets, TLC

VARIABLES
    \* preprocess_to_dataframe
    pc, search_results, keys_to_extract, processed_data, extracted_row,
    item_no, path_no, keys, key_no, value, raised, frame,
    \* get_google_search_results
    s_pc, page_limit, all_search_results, start_index, page_no, response,
    requests, fetched,
    \* GbizInfoFetcher.fetch_data
    g_pc, corporate_numbers, results, number_no, outcomes, waits, g_raised, df

extractVars == <<pc, search_results, keys_to_extract, processed_data, extracted_row,
                 item_no, path_no, keys, key_no, value, raised, frame>>
searchVars == <<s_pc, page_limit, all_search_results, start_index, page_no, response,
                requests, fetched>>
gbizVars == <<g_pc, corporate_numbers, results, number_no, outcomes, waits, g_raised, df>>
vars == <<extractVars, searchVars, gbizVars>>

----------------------------------------------------------------------------
(* Bounds of the model.                                                    *)

\* longest list inside a generated JSON-like value
MaxLen == 2
\* most segments of a generated key-path
MaxSegs == 3
\* most items of a generated multi-item batch
MaxItems == 2
\* most key-paths of a generated multi-path batch
MaxPaths == 2
\* largest page_limit
MaxPages == 3
\* most corporate numbers in one fetch_data call
MaxNumbers == 3

----------------------------------------------------------------------------
(* JSON-like values as Python holds them after json parsing: None, a       *)
(* number, a list, a dict (insertion-ordered pairs of key and value).      *)
(* A string is a sequence of characters; the character U+00B2             *)
(* (superscript two) is written "sup2".                                    *)

None == [t |-> "null", v |-> 0]
Num(n) == [t |-> "num", v |-> n]
List(s) == [t |-> "list", v |-> s]
Dict(pairs) == [t |-> "dict", v |-> pairs]

\* isinstance(value, list), isinstance(value, dict)
IsList(x) == x.t = "list"
IsDict(x) == x.t = "dict"

\* characters c with c.isdigit(): the decimal digits and the superscript digit
DigitChars == {"0", "1", "sup2"}
\* characters int() accepts: the decimal digits only
DecimalChars == {"0", "1"}

\* str.isdigit(): non-empty and every character is a digit character
PyIsDigit(s) == Len(s) > 0 /\ \A x \in 1..Len(s) : s[x] \in DigitChars

DigitValue(c) == IF c = "0" THEN 0 ELSE 1

RECURSIVE DecimalValue(_)
DecimalValue(s) ==
    IF Len(s) = 0 THEN 0
    ELSE 10 * DecimalValue(SubSeq(s, 1, Len(s) - 1)) + DigitValue(s[Len(s)])

\* int(s) for a string without sign, blanks or underscores: the number it
\* writes in decimal digits, ValueError for anything else
PyInt(s) ==
    IF Len(s) > 0 /\ \A x \in 1..Len(s) : s[x] \in DecimalChars
    THEN [exc |-> "none", val |-> DecimalValue(s)]
    ELSE [exc |-> "ValueError", val |-> 0]

\* ListGetItem with the index taken as one-based (value[int(key) - 1]):
\* index 0 becomes Python's -1, the last element
ListGetItemOneBased(l, idx) ==
    IF idx = 0
    THEN IF Len(l.v) > 0 THEN [exc |-> "none", val |-> l.v[Len(l.v)]]
         ELSE [exc |-> "IndexError", val |-> None]
    ELSE IF idx - 1 < Len(l.v) THEN [exc |-> "none", val |-> l.v[idx]]
    ELSE [exc |-> "IndexError", val |-> None]

\* list[idx] for idx >= 0: the element, IndexError past the end
ListGetItem(l, idx) ==
    IF idx < Len(l.v) THEN [exc |-> "none", val |-> l.v[idx + 1]]
    ELSE [exc |-> "IndexError", val |-> None]

\* dict.get(key): the value stored under key, None when there is none
DictGet(d, key) ==
    IF \E x \in 1..Len(d.v) : d.v[x][1] = key
    THEN d.v[CHOOSE x \in 1..Len(d.v) : d.v[x][1] = key][2]
    ELSE None

\* d[key] = val on an insertion-ordered dict
DictSet(d, key, val) ==
    IF \E x \in 1..Len(d.v) : d.v[x][1] = key
    THEN Dict([x \in 1..Len(d.v) |-> IF d.v[x][1] = key THEN <<key, val>> ELSE d.v[x]])
    ELSE Dict(Append(d.v, <<key, val>>))

\* dict.get(key, default)
DictGetDefault(d, key, default) ==
    IF \E x \in 1..Len(d.v) : d.v[x][1] = key THEN DictGet(d, key) ELSE default

\* bool(x): None, 0 and the empty list and dict are false
Truthy(x) ==
    CASE x.t = "null" -> FALSE
      [] x.t = "num" -> x.v # 0
      [] OTHER -> Len(x.v) > 0

\* x[0]: the first element of a list, IndexError on the empty list,
\* KeyError on a dict (no key 0 here), TypeError on None and numbers
FirstOf(x) ==
    CASE x.t = "list" -> IF Len(x.v) > 0 THEN [exc |-> "none", val |-> x.v[1]]
                         ELSE [exc |-> "IndexError", val |-> None]
      [] x.t = "dict" -> [exc |-> "KeyError", val |-> None]
      [] OTHER -> [exc |-> "TypeError", val |-> None]

\* str.split('.')
RECURSIVE Split(_)
Split(s) ==
    IF \E x \in 1..Len(s) : s[x] = "."
    THEN LET d == CHOOSE x \in 1..Len(s) :
                      s[x] = "." /\ \A y \in 1..(x - 1) : s[y] # "."
         IN <<SubSeq(s, 1, d - 1)>> \o Split(SubSeq(s, d + 1, Len(s)))
    ELSE <<s>>

----------------------------------------------------------------------------
(* preprocess_to_dataframe                                                 *)

\* the value the key loop leaves in `value` when it gives a path up
Absent == None

\* Caught with IndexError forgotten
CaughtNoIndexError == {"KeyError", "TypeError"}

\* the exceptions the except clause of the key loop catches
Caught == {"KeyError", "IndexError", "TypeError"}

\* KeyStep without the isinstance(value, list) test: every all-digit key
\* indexes the cursor, and indexing a dict by a number is a KeyError,
\* indexing None or a number a TypeError
KeyStepNoListTest(cur, key) ==
    IF PyIsDigit(key)
    THEN LET n == PyInt(key) IN
         IF n.exc # "none"
         THEN [kind |-> "raise", val |-> cur, exc |-> n.exc]
         ELSE IF IsList(cur) /\ n.val < Len(cur.v)
         THEN [kind |-> "next", val |-> cur.v[n.val + 1], exc |-> "none"]
         ELSE [kind |-> "break", val |-> Absent, exc |-> "none"]
    ELSE IF IsDict(cur)
    THEN [kind |-> "next", val |-> DictGet(cur, key), exc |-> "none"]
    ELSE [kind |-> "break", val |-> Absent, exc |-> "none"]

\* KeyStep without the break of the else branch: value = None and on to
\* the next key
KeyStepNoBreak(cur, key) ==
    IF PyIsDigit(key) /\ IsList(cur)
    THEN LET n == PyInt(key) IN
         IF n.exc # "none"
         THEN [kind |-> "raise", val |-> cur, exc |-> n.exc]
         ELSE IF n.val < Len(cur.v)
         THEN [kind |-> "next", val |-> cur.v[n.val + 1], exc |-> "none"]
         ELSE [kind |-> "break", val |-> Absent, exc |-> "none"]
    ELSE IF IsDict(cur)
    THEN [kind |-> "next", val |-> DictGet(cur, key), exc |-> "none"]
    ELSE [kind |-> "next", val |-> Absent, exc |-> "none"]

\* what one pass of the body of `for key in keys` does to the cursor:
\* go on with a new cursor, break with None, or let an exception escape
KeyStep(cur, key) ==
    IF PyIsDigit(key) /\ IsList(cur)
    THEN LET n == PyInt(key) IN
         IF n.exc # "none"
         THEN IF n.exc \in Caught
              THEN [kind |-> "break", val |-> Absent, exc |-> "none"]
              ELSE [kind |-> "raise", val |-> cur, exc |-> n.exc]
         ELSE LET e == ListGetItem(cur, n.val) IN
              IF e.exc # "none"
              THEN IF e.exc \in Caught
                   THEN [kind |-> "break", val |-> Absent, exc |-> "none"]
                   ELSE [kind |-> "raise", val |-> cur, exc |-> e.exc]
              ELSE [kind |-> "next", val |-> e.val, exc |-> "none"]
    ELSE IF IsDict(cur)
    THEN [kind |-> "next", val |-> DictGet(cur, key), exc |-> "none"]
    ELSE [kind |-> "break", val |-> Absent, exc |-> "none"]

\* AppendRow putting the new row first
AppendRowFirst(rows, row) == <<row>> \o rows

\* processed_data.append(extracted_row)
AppendRow(rows, row) == Append(rows, row)

\* the keys of an insertion-ordered dict, in order
DictKeysOf(d) == [x \in 1..Len(d.v) |-> d.v[x][1]]

RECURSIVE ColumnUnion(_, _)
ColumnUnion(cols, more) ==
    IF Len(more) = 0 THEN cols
    ELSE ColumnUnion(IF \E x \in 1..Len(cols) : cols[x] = more[1]
                     THEN cols ELSE Append(cols, more[1]),
                     Tail(more))

RECURSIVE AllColumns(_)
AllColumns(rows) ==
    IF Len(rows) = 0 THEN <<>>
    ELSE ColumnUnion(DictKeysOf(rows[1]),
                     AllColumns(Tail(rows)))

\* pd.DataFrame(list of dicts): the columns are the keys of the dicts in order
\* of first appearance, and there is one row per dict, in order
DataFrame(rows) ==
    LET cols == AllColumns(rows) IN
    [columns |-> cols,
     rows |-> [r \in 1..Len(rows) |-> [c \in 1..Len(cols) |-> DictGet(rows[r], cols[c])]]]

EmptyFrame == [columns |-> <<>>, rows |-> <<>>]

----------------------------------------------------------------------------
(* The inputs preprocess_to_dataframe is run on.                           *)

ka == <<"a">>
k1 == <<"1">>

\* the segments key-paths are made of: keys, decimal indices (one of two
\* digits), the superscript digit, and the empty segment of "a..b"
Segments == {ka, k1, <<"0">>, <<"1", "1">>, <<"sup2">>, <<>>}

RECURSIVE Join(_)
Join(segs) ==
    IF Len(segs) = 1 THEN segs[1]
    ELSE segs[1] \o <<".">> \o Join(Tail(segs))

Paths == {Join(segs) : segs \in UNION {[1..n -> Segments] : n \in 1..MaxSegs}}

\* the keys generated dicts hold, in the order they are inserted
KeyOrder == <<ka, k1>>

PairsOf(f) ==
    LET ks == SelectSeq(KeyOrder, LAMBDA k : k \in DOMAIN f)
    IN [x \in 1..Len(ks) |-> <<ks[x], f[ks[x]]>>]

ListsOver(S) == {List(s) : s \in UNION {[1..n -> S] : n \in 0..MaxLen}}
DictsOver(S) ==
    {Dict(PairsOf(f)) : f \in UNION {[K -> S] : K \in SUBSET {ka, k1}}}
ContainersOver(S) == ListsOver(S) \cup DictsOver(S)

Leaves == {None, Num(10), Num(20)}
Level1 == ContainersOver(Leaves)
Level2 == ContainersOver({None, Num(10), List(<<Num(10), Num(20)>>),
                          Dict(<<<<ka, None>>, <<k1, Num(20)>>>>)})
Level3 == ContainersOver({Dict(<<<<ka, List(<<Num(10), Num(20)>>)>>>>),
                          List(<<Dict(<<<<k1, None>>>>)>>)})
Items == Leaves \cup Level1 \cup Level2 \cup Level3

\* batches of several items and several key-paths
TableItems == {Dict(<<<<ka, Num(10)>>>>), Dict(<<>>), List(<<Num(10), Num(20)>>)}
TablePaths == {ka, k1, <<"sup2">>}

SeqsUpTo(S, n) == UNION {[1..m -> S] : m \in 0..n}

Batches ==
    {<<<<it>>, <<p>>>> : it \in Items, p \in Paths}
    \cup (SeqsUpTo(TableItems, MaxItems) \X SeqsUpTo(TablePaths, MaxPaths))

----------------------------------------------------------------------------
(* The three programs at rest.                                             *)

NoResponse == [kind |-> "none", items |-> <<>>, next |-> "none"]

ExtractIdle ==
    /\ pc = "idle" /\ search_results = <<>> /\ keys_to_extract = <<>>
    /\ processed_data = <<>> /\ extracted_row = Dict(<<>>)
    /\ item_no = 0 /\ path_no = 0 /\ keys = <<>> /\ key_no = 0
    /\ value = None /\ raised = "none" /\ frame = EmptyFrame

SearchIdle ==
    /\ s_pc = "idle" /\ page_limit = 0 /\ all_search_results = <<>>
    /\ start_index = Num(1) /\ page_no = 0 /\ response = NoResponse
    /\ requests = <<>> /\ fetched = <<>>

GbizIdle ==
    /\ g_pc = "idle" /\ corporate_numbers = <<>> /\ results = <<>>
    /\ number_no = 0 /\ outcomes = <<>> /\ waits = 0 /\ g_raised = "none"
    /\ df = EmptyFrame

----------------------------------------------------------------------------
(* preprocess_to_dataframe, statement by statement.                        *)

ExtractInit ==
    /\ \E b \in Batches : search_results = b[1] /\ keys_to_extract = b[2]
    /\ pc = "item"
    /\ processed_data = <<>> /\ extracted_row = Dict(<<>>)
    /\ item_no = 0 /\ path_no = 0 /\ keys = <<>> /\ key_no = 0
    /\ value = None /\ raised = "none" /\ frame = EmptyFrame
    /\ SearchIdle /\ GbizIdle

\* for item in search_results: extracted_row = {}
NextItem ==
    /\ pc = "item" /\ item_no < Len(search_results)
    /\ item_no' = item_no + 1
    /\ extracted_row' = Dict(<<>>)
    /\ path_no' = 0
    /\ pc' = "path"
    /\ UNCHANGED <<search_results, keys_to_extract, processed_data, keys, key_no,
                   value, raised, frame>>
    /\ UNCHANGED <<searchVars, gbizVars>>

\* for key_path in keys_to_extract: keys = key_path.split('.'); value = item
NextPath ==
    /\ pc = "path" /\ path_no < Len(keys_to_extract)
    /\ path_no' = path_no + 1
    /\ keys' = Split(keys_to_extract[path_no + 1])
    /\ value' = search_results[item_no]
    /\ key_no' = 0
    /\ pc' = "key"
    /\ UNCHANGED <<search_results, keys_to_extract, processed_data, extracted_row,
                   item_no, raised, frame>>
    /\ UNCHANGED <<searchVars, gbizVars>>

\* one pass of the body of `for key in keys`; the loop ends when the keys
\* are used up or at a break, and an exception that is not caught leaves
\* the function
EvalKey ==
    /\ pc = "key" /\ key_no < Len(keys)
    /\ LET r == KeyStep(value, keys[key_no + 1]) IN
       /\ key_no' = key_no + 1
       /\ value' = r.val
       /\ raised' = r.exc
       /\ pc' = IF r.kind = "raise" THEN "raised"
                ELSE IF r.kind = "break" \/ key_no + 1 = Len(keys) THEN "store"
                ELSE "key"
    /\ UNCHANGED <<search_results, keys_to_extract, processed_data, extracted_row,
                   item_no, path_no, keys, frame>>
    /\ UNCHANGED <<searchVars, gbizVars>>

\* extracted_row[key_path] = value
StoreValue ==
    /\ pc = "store"
    /\ extracted_row' = DictSet(extracted_row, keys_to_extract[path_no], value)
    /\ pc' = "path"
    /\ UNCHANGED <<search_results, keys_to_extract, processed_data, item_no,
                   path_no, keys, key_no, value, raised, frame>>
    /\ UNCHANGED <<searchVars, gbizVars>>

\* processed_data.append(extracted_row), after the last key-path
StoreRow ==
    /\ pc = "path" /\ path_no = Len(keys_to_extract)
    /\ processed_data' = AppendRow(processed_data, extracted_row)
    /\ pc' = "item"
    /\ UNCHANGED <<search_results, keys_to_extract, extracted_row, item_no,
                   path_no, keys, key_no, value, raised, frame>>
    /\ UNCHANGED <<searchVars, gbizVars>>

\* return pd.DataFrame(processed_data), after the last item
ReturnFrame ==
    /\ pc = "item" /\ item_no = Len(search_results)
    /\ frame' = DataFrame(processed_data)
    /\ pc' = "returned"
    /\ UNCHANGED <<search_results, keys_to_extract, processed_data, extracted_row,
                   item_no, path_no, keys, key_no, value, raised>>
    /\ UNCHANGED <<searchVars, gbizVars>>

ExtractNext ==
    \/ NextItem
    \/ NextPath
    \/ EvalKey
    \/ StoreValue
    \/ StoreRow
    \/ ReturnFrame

ExtractSpec == ExtractInit /\ [][ExtractNext]_vars

----------------------------------------------------------------------------
(* What the key-path contract says of one segment and of a whole path,     *)
(* written from the contract and not from the loop above.                  *)

\* the item and the key-path the key loop is working on
CurItem == search_results[item_no]
CurPath == keys_to_extract[path_no]
InKeyLoop == pc \in {"key", "store", "raised"}

\* a segment written in decimal digits, and the index it writes
IsDecimalSeg(seg) == Len(seg) > 0 /\ \A x \in 1..Len(seg) : seg[x] \in {"0", "1"}
\* a segment of digit characters (the decimal digits and the superscript digit)
IsAllDigits(seg) == Len(seg) > 0 /\ \A x \in 1..Len(seg) : seg[x] \in {"0", "1", "sup2"}
IsLeaf(cur) == cur.t \in {"null", "num"}

HasKey(cur, seg) == cur.t = "dict" /\ \E x \in 1..Len(cur.v) : cur.v[x][1] = seg
ValueAtKey(cur, seg) == cur.v[CHOOSE x \in 1..Len(cur.v) : cur.v[x][1] = seg][2]
InBounds(cur, seg) ==
    cur.t = "list" /\ IsDecimalSeg(seg) /\ DecimalValue(seg) < Len(cur.v)
OutOfBounds(cur, seg) ==
    cur.t = "list" /\ IsDecimalSeg(seg) /\ DecimalValue(seg) >= Len(cur.v)
MissingKey(cur, seg) == cur.t = "dict" /\ ~HasKey(cur, seg)

\* the segment resolves on the cursor, and the value it leads to
SegResolves(cur, seg) == InBounds(cur, seg) \/ HasKey(cur, seg)
SegTarget(cur, seg) ==
    IF cur.t = "list" THEN cur.v[DecimalValue(seg) + 1] ELSE ValueAtKey(cur, seg)

RECURSIVE Resolves(_, _)
Resolves(cur, segs) ==
    \/ Len(segs) = 0
    \/ /\ SegResolves(cur, segs[1])
       /\ Resolves(SegTarget(cur, segs[1]), Tail(segs))

RECURSIVE Target(_, _)
Target(cur, segs) ==
    IF Len(segs) = 0 THEN cur
    ELSE Target(SegTarget(cur, segs[1]), Tail(segs))

\* how the first segment that does not resolve fails: "none" when the whole
\* path resolves
RECURSIVE FirstFailure(_, _)
FirstFailure(cur, segs) ==
    IF Len(segs) = 0 THEN "none"
    ELSE IF SegResolves(cur, segs[1])
    THEN FirstFailure(SegTarget(cur, segs[1]), Tail(segs))
    ELSE IF OutOfBounds(cur, segs[1]) THEN "out_of_bounds"
    ELSE IF MissingKey(cur, segs[1]) THEN "missing_key"
    ELSE "other"

\* a sequence without its repetitions, first occurrences kept in order
Distinct(seq) == ColumnUnion(<<>>, seq)

\* what the contract puts in the record of item `it` under key-path `p`
Expected(it, p) ==
    IF Resolves(it, Split(p)) THEN Target(it, Split(p)) ELSE None

----------------------------------------------------------------------------
(* Claims on preprocess_to_dataframe.                                      *)

\* C1: the key-path extraction never raises: no (item, key-path) pair makes
\* preprocess_to_dataframe end in an exception, so no item aborts the batch.
C1_NeverRaises == pc # "raised"

\* C2: when the path resolves to a terminal JSON null, the extracted result
\* differs from the result of a path that cannot be resolved (the absent
\* marker).
C2_NullDistinctFromAbsent ==
    (pc = "store" /\ Resolves(CurItem, Split(CurPath))
                  /\ Target(CurItem, Split(CurPath)) = None)
        => value # Absent

\* C3: when every segment, left to right, is an in-bounds decimal index on a
\* sequence or a present key on a mapping, the extraction ends with exactly
\* the value at the end of the path.
C3_ResolvedValue ==
    (InKeyLoop /\ Resolves(CurItem, Split(CurPath)))
        => /\ pc # "raised"
           /\ pc = "store" => value = Target(CurItem, Split(CurPath))

C3_Witness ==
    /\ pc = "store"
    /\ CurItem = Dict(<<<<ka, Dict(<<<<ka, List(<<Num(10), Num(20)>>)>>>>)>>>>)
    /\ CurPath = <<"a", ".", "a", ".", "1">>
    /\ value = Num(20)

\* C4: when the first segment that does not resolve is an index out of
\* bounds or a key the mapping does not hold, the extraction ends with the
\* absent marker for the whole path and raises nothing.
C4_AbsentOnMiss ==
    (InKeyLoop /\ FirstFailure(CurItem, Split(CurPath)) \in {"out_of_bounds", "missing_key"})
        => /\ pc # "raised"
           /\ pc = "store" => value = Absent

C4_Witness ==
    /\ pc = "store"
    /\ CurItem = Dict(<<<<ka, List(<<Num(10), Num(20)>>)>>>>)
    /\ CurPath = <<"a", ".", "1", "1", ".", "a">>
    /\ FirstFailure(CurItem, Split(CurPath)) = "out_of_bounds"
    /\ Len(keys) = 3 /\ key_no = 2
    /\ value = Absent

\* C5: on return there is one record per input item, in input order; every
\* record has exactly one entry per requested key-path, in the declared
\* order of the paths, resolved or not; the table has one row per item and
\* the same columns for all of them.
C5_TableShape ==
    pc = "returned" =>
        /\ Len(processed_data) = Len(search_results)
        /\ \A r \in 1..Len(processed_data) :
              /\ DictKeysOf(processed_data[r]) = Distinct(keys_to_extract)
              /\ \A c \in 1..Len(processed_data[r].v) :
                    processed_data[r].v[c][2]
                        = Expected(search_results[r], processed_data[r].v[c][1])
        /\ Len(frame.rows) = Len(search_results)
        /\ Len(search_results) > 0 => frame.columns = Distinct(keys_to_extract)
        /\ \A r \in 1..Len(frame.rows) : Len(frame.rows[r]) = Len(frame.columns)

C5_Witness ==
    /\ pc = "returned"
    /\ search_results = <<Dict(<<<<ka, Num(10)>>>>), Dict(<<>>)>>
    /\ keys_to_extract = <<ka, k1>>
    /\ frame = [columns |-> <<ka, k1>>,
                rows |-> <<<<Num(10), None>>, <<None, None>>>>]

\* C6: when a segment fails to resolve (missing mapping key, index out of
\* bounds, scalar or null cursor), no later segment of the path is evaluated.
C6_StopsAtFailure ==
    [][(pc = "key" /\ LET cur == value
                          seg == keys[key_no + 1]
                      IN MissingKey(cur, seg) \/ OutOfBounds(cur, seg) \/ IsLeaf(cur))
          => pc' # "key"]_vars

\* C6 as amended: after an index out of bounds or on a scalar or null
\* cursor no later segment is evaluated; after a missing mapping key the
\* cursor becomes None, so at most the next segment is evaluated, and it
\* ends the traversal with the absent marker.
C6_StopsAtFailureOrNext ==
    [][pc = "key" =>
          LET cur == value
              seg == keys[key_no + 1]
          IN /\ (OutOfBounds(cur, seg) \/ IsLeaf(cur))
                    => (pc' = "store" /\ value' = Absent)
             /\ MissingKey(cur, seg)
                    => (pc' \in {"key", "store"} /\ value' = None)]_vars

C6_Witness ==
    /\ pc = "store"
    /\ Len(keys) = 3 /\ key_no = 2
    /\ MissingKey(CurItem, keys[1])
    /\ value = Absent

\* C7: a segment is used as a zero-based index only when it is all digits
\* and the cursor is a sequence; on a mapping every segment, all digits or
\* not, is looked up as a string key; a segment that is not all digits
\* yields absent on a sequence.
C7_IndexOnlyOnSequence ==
    [][pc = "key" =>
          LET cur == value
              seg == keys[key_no + 1]
          IN /\ cur.t = "dict"
                    => /\ pc' # "raised"
                       /\ value' = IF HasKey(cur, seg) THEN ValueAtKey(cur, seg) ELSE None
             /\ (cur.t = "list" /\ ~IsAllDigits(seg))
                    => (pc' = "store" /\ value' = Absent)
             /\ (cur.t = "list" /\ pc' # "raised" /\ value' # Absent)
                    => /\ IsAllDigits(seg)
                       /\ DecimalValue(seg) < Len(cur.v)
                       /\ value' = cur.v[DecimalValue(seg) + 1]]_vars

C7_Witness ==
    /\ pc = "store"
    /\ keys = <<k1>>
    /\ CurItem = Dict(<<<<ka, Num(10)>>, <<k1, Num(20)>>>>)
    /\ value = Num(20)

----------------------------------------------------------------------------
(* get_google_search_results                                               *)

\* what service.cse().list(...).execute() can answer: a response dict, whose
\* 'items' and 'queries' may be there or not, or an exception
ResultItem(n) == Dict(<<<<"title", Num(n)>>>>)
ItemsFields ==
    {<<>>,
     <<<<"items", List(<<>>)>>>>,
     <<<<"items", List(<<ResultItem(1)>>)>>>>,
     <<<<"items", List(<<ResultItem(2), ResultItem(3)>>)>>>>}
NextPageOf(np) == <<<<"queries", Dict(<<<<"nextPage", np>>>>)>>>>
QueriesFields ==
    {<<>>,
     <<<<"queries", None>>>>,
     <<<<"queries", Dict(<<>>)>>>>,
     NextPageOf(List(<<>>)),
     NextPageOf(List(<<Dict(<<>>)>>)),
     NextPageOf(List(<<Dict(<<<<"title", Num(0)>>>>)>>)),
     NextPageOf(List(<<Dict(<<<<"startIndex", Num(11)>>>>)>>)),
     NextPageOf(List(<<Dict(<<<<"startIndex", Num(21)>>>>)>>))}
Responses == {Dict(i \o q) : i \in ItemsFields, q \in QueriesFields}
ServiceErrors == {"HttpError", "TimeoutError"}

\* range(page_limit) has another round after n rounds; with <= for <
HasNextPassInclusive(n, limit) == n <= limit

\* range(page_limit) has another round after n rounds
HasNextPass(n, limit) == n < limit

\* HandleResponse that leaves the loop on a missing nextPage before it has
\* added the items of the page
HandleResponseExtendLast(resp, found, start) ==
    LET items == DictGetDefault(resp, "items", List(<<>>))
        stop(exc) == [found |-> found, start |-> start, go |-> FALSE, exc |-> exc]
    IN
    IF ~Truthy(items) THEN stop("none")
    ELSE LET queries == DictGetDefault(resp, "queries", Dict(<<>>)) IN
         IF ~IsDict(queries) THEN stop("AttributeError")
         ELSE LET first == FirstOf(DictGetDefault(queries, "nextPage", List(<<None>>))) IN
              IF first.exc # "none" THEN stop(first.exc)
              ELSE IF ~Truthy(first.val) THEN stop("none")
              ELSE IF ~IsDict(first.val) THEN stop("AttributeError")
              ELSE [found |-> found \o items.v,
                    start |-> DictGet(first.val, "startIndex"),
                    go |-> TRUE, exc |-> "none"]

\* the try body after execute(): take the items, add them to the results,
\* read the start index of the next page. Every exception is caught by
\* `except Exception` and ends the loop; what was added stays added.
HandleResponse(resp, found, start) ==
    LET items == DictGetDefault(resp, "items", List(<<>>))
        stop(f, exc) == [found |-> f, start |-> start, go |-> FALSE, exc |-> exc]
    IN
    IF ~Truthy(items) THEN stop(found, "none")
    ELSE LET more == found \o items.v
             queries == DictGetDefault(resp, "queries", Dict(<<>>))
         IN
         IF ~IsDict(queries) THEN stop(more, "AttributeError")
         ELSE LET first == FirstOf(DictGetDefault(queries, "nextPage", List(<<None>>))) IN
              IF first.exc # "none" THEN stop(more, first.exc)
              ELSE IF ~Truthy(first.val) THEN stop(more, "none")
              ELSE IF ~IsDict(first.val) THEN stop(more, "AttributeError")
              ELSE [found |-> more,
                    start |-> DictGet(first.val, "startIndex"),
                    go |-> TRUE, exc |-> "none"]

SearchInit ==
    /\ page_limit \in 0..MaxPages
    /\ s_pc = "loop"
    /\ all_search_results = <<>>
    /\ start_index = Num(1)
    /\ page_no = 0 /\ response = NoResponse
    /\ requests = <<>> /\ fetched = <<>>
    /\ ExtractIdle /\ GbizIdle

\* one round of the loop up to execute(): sleep(1), then the request with
\* start=start_index, which the service answers or fails
SearchRequest ==
    /\ s_pc = "loop" /\ HasNextPass(page_no, page_limit)
    /\ page_no' = page_no + 1
    /\ requests' = Append(requests, start_index)
    /\ \/ \E r \in Responses :
            /\ response' = r
            /\ fetched' = Append(fetched, r)
            /\ s_pc' = "got"
       \/ \E e \in ServiceErrors :
            /\ s_pc' = "done"
            /\ UNCHANGED <<response, fetched>>
    /\ UNCHANGED <<page_limit, all_search_results, start_index>>
    /\ UNCHANGED <<extractVars, gbizVars>>

\* the rest of the round: the response is taken apart
SearchHandle ==
    /\ s_pc = "got"
    /\ LET h == HandleResponse(response, all_search_results, start_index) IN
       /\ all_search_results' = h.found
       /\ start_index' = h.start
       /\ s_pc' = IF h.go THEN "loop" ELSE "done"
    /\ UNCHANGED <<page_limit, page_no, response, requests, fetched>>
    /\ UNCHANGED <<extractVars, gbizVars>>

\* the loop has run page_limit rounds: return all_search_results
SearchReturn ==
    /\ s_pc = "loop" /\ ~HasNextPass(page_no, page_limit)
    /\ s_pc' = "done"
    /\ UNCHANGED <<page_limit, all_search_results, start_index, page_no, response,
                   requests, fetched>>
    /\ UNCHANGED <<extractVars, gbizVars>>

SearchNext ==
    \/ SearchRequest
    \/ SearchHandle
    \/ SearchReturn

\* the function is a sequential program: it takes its next step
SearchSpec == SearchInit /\ [][SearchNext]_vars /\ WF_vars(SearchNext)

----------------------------------------------------------------------------
(* Claims on get_google_search_results.                                    *)

\* the items a response carries, and the start index its nextPage names
PageItems(resp) == IF HasKey(resp, "items") THEN ValueAtKey(resp, "items").v ELSE <<>>
HasNextPage(resp) ==
    /\ HasKey(resp, "queries")
    /\ HasKey(ValueAtKey(resp, "queries"), "nextPage")
    /\ ValueAtKey(ValueAtKey(resp, "queries"), "nextPage").t = "list"
    /\ Len(ValueAtKey(ValueAtKey(resp, "queries"), "nextPage").v) > 0
NextPageStart(resp) ==
    LET np == ValueAtKey(ValueAtKey(resp, "queries"), "nextPage").v[1]
    IN IF HasKey(np, "startIndex") THEN ValueAtKey(np, "startIndex") ELSE None

RECURSIVE AllPageItems(_)
AllPageItems(resps) ==
    IF Len(resps) = 0 THEN <<>>
    ELSE PageItems(resps[1]) \o AllPageItems(Tail(resps))

\* C8: the function terminates; it issues at most page_limit requests; the
\* loop ends as soon as a response has no items or no nextPage or a request
\* raises; otherwise the next request uses the startIndex of the previous
\* response's nextPage (the first one uses 1).
C8_Terminates ==
    /\ <>(s_pc = "done")
    /\ [](Len(requests) <= page_limit)
    /\ [][/\ (s_pc = "got" /\ (PageItems(response) = <<>> \/ ~HasNextPage(response)))
               => s_pc' = "done"
          /\ (s_pc = "loop" /\ Len(requests') > Len(requests) /\ fetched' = fetched)
               => s_pc' = "done"
          /\ Len(requests') > Len(requests)
               => requests'[Len(requests')]
                    = IF Len(fetched) = 0 THEN Num(1)
                      ELSE NextPageStart(fetched[Len(fetched)])]_vars

C8_Witness ==
    /\ s_pc = "done"
    /\ page_limit = 3
    /\ requests = <<Num(1), Num(11), Num(21)>>
    /\ Len(fetched) = 3 /\ HasNextPage(fetched[3])

\* C9: the list returned is the concatenation, in page order, of the items of
\* every page the service answered, also when a later request failed, and
\* it is empty when there were no results.
C9_AllPagesReturned ==
    s_pc = "done" => all_search_results = AllPageItems(fetched)

C9_Witness ==
    /\ s_pc = "done"
    /\ Len(requests) = 3 /\ Len(fetched) = 2
    /\ all_search_results = <<ResultItem(1), ResultItem(2), ResultItem(3)>>

----------------------------------------------------------------------------
(* GbizInfoFetcher                                                         *)

\* _get_value_safely(data, keys)
RECURSIVE GetValueSafely(_, _)
GetValueSafely(data, path) ==
    IF Len(path) = 0 THEN data
    ELSE IF IsDict(data) THEN GetValueSafely(DictGet(data, path[1]), Tail(path))
    ELSE None

\* what requests.get(url) and response.json() can give for one corporate
\* number: a RequestException (no connection, an HTTP error status raised
\* by raise_for_status, a body that is not JSON) or the parsed body
HojinFull ==
    Dict(<<<<"name", Num(7)>>, <<"location", Num(8)>>,
           <<"capital_stock_summary", Dict(<<<<"capital_stock", Num(10)>>>>)>>>>)
HojinNoCapital ==
    Dict(<<<<"name", Num(7)>>, <<"capital_stock_summary", None>>>>)
Bodies ==
    {Dict(<<<<"hojin-infos", List(<<HojinFull>>)>>>>),
     Dict(<<<<"hojin-infos", List(<<HojinNoCapital>>)>>>>),
     Dict(<<>>),
     Dict(<<<<"hojin-infos", List(<<>>)>>>>),
     Dict(<<<<"hojin-infos", None>>>>),
     Dict(<<<<"hojin-infos", List(<<None>>)>>>>),
     List(<<>>)}
RequestFailed == [kind |-> "RequestException", body |-> None]
Answers == {RequestFailed} \cup {[kind |-> "ok", body |-> b] : b \in Bodies}

CorporateNumbers == {"7010401001556", "7030005011875"}

\* the try body after response.json(): the first hojin-infos entry and the
\* row made of it; AttributeError when .get is called on what is no dict
InfoRow(number, data) ==
    IF ~IsDict(data) THEN [exc |-> "AttributeError", row |-> Dict(<<>>)]
    ELSE LET first == FirstOf(DictGetDefault(data, "hojin-infos", List(<<Dict(<<>>)>>))) IN
         IF first.exc # "none" THEN [exc |-> first.exc, row |-> Dict(<<>>)]
         ELSE IF ~IsDict(first.val) THEN [exc |-> "AttributeError", row |-> Dict(<<>>)]
         ELSE LET hojin_info == first.val IN
              [exc |-> "none",
               row |-> Dict(<<
                  <<"corporate_number", number>>,
                  <<"name", DictGet(hojin_info, "name")>>,
                  <<"location", DictGet(hojin_info, "location")>>,
                  <<"employee_number", DictGet(hojin_info, "employee_number")>>,
                  <<"capital_stock",
                    GetValueSafely(hojin_info, <<"capital_stock_summary", "capital_stock">>)>>,
                  <<"date_of_establishment", DictGet(hojin_info, "date_of_establishment")>>,
                  <<"company_url", DictGet(hojin_info, "company_url")>>,
                  <<"business_summary", DictGet(hojin_info, "business_summary")>>
               >>)]

\* the exceptions the except clause of fetch_data catches
GbizCaught == {"RequestException"}

GbizInit ==
    /\ corporate_numbers \in SeqsUpTo(CorporateNumbers, MaxNumbers)
    /\ g_pc = "loop"
    /\ results = <<>>
    /\ number_no = 0 /\ outcomes = <<>> /\ waits = 0 /\ g_raised = "none"
    /\ df = EmptyFrame
    /\ ExtractIdle /\ SearchIdle

\* for number in corporate_numbers: the try statement
GbizFetch ==
    /\ g_pc = "loop" /\ number_no < Len(corporate_numbers)
    /\ number_no' = number_no + 1
    /\ \E a \in Answers :
         /\ outcomes' = Append(outcomes, a)
         /\ IF a.kind # "ok"
            THEN /\ g_pc' = IF a.kind \in GbizCaught THEN "sleep" ELSE "raised"
                 /\ g_raised' = IF a.kind \in GbizCaught THEN "none" ELSE a.kind
                 /\ UNCHANGED results
            ELSE LET r == InfoRow(corporate_numbers[number_no + 1], a.body) IN
                 IF r.exc = "none"
                 THEN /\ results' = Append(results, r.row)
                      /\ g_pc' = "sleep"
                      /\ UNCHANGED g_raised
                 ELSE /\ g_pc' = IF r.exc \in GbizCaught THEN "sleep" ELSE "raised"
                      /\ g_raised' = IF r.exc \in GbizCaught THEN "none" ELSE r.exc
                      /\ UNCHANGED results
    /\ UNCHANGED <<corporate_numbers, waits, df>>
    /\ UNCHANGED <<extractVars, searchVars>>

\* time.sleep(0.5), after the try statement
GbizSleep ==
    /\ g_pc = "sleep"
    /\ waits' = waits + 1
    /\ g_pc' = "loop"
    /\ UNCHANGED <<corporate_numbers, results, number_no, outcomes, g_raised, df>>
    /\ UNCHANGED <<extractVars, searchVars>>

\* after the loop: an empty DataFrame when there are no rows, else the rows
\* as a DataFrame (its columns are already in the order asked for)
GbizReturn ==
    /\ g_pc = "loop" /\ number_no = Len(corporate_numbers)
    /\ df' = IF Len(results) = 0 THEN EmptyFrame ELSE DataFrame(results)
    /\ g_pc' = "done"
    /\ UNCHANGED <<corporate_numbers, results, number_no, outcomes, waits, g_raised>>
    /\ UNCHANGED <<extractVars, searchVars>>

GbizNext ==
    \/ GbizFetch
    \/ GbizSleep
    \/ GbizReturn

GbizSpec == GbizInit /\ [][GbizNext]_vars

----------------------------------------------------------------------------
(* Claims on GbizInfoFetcher.fetch_data.                                   *)

\* the corporate numbers of the rows of the result, in order
RowNumbers(rows) == [r \in 1..Len(rows) |-> ValueAtKey(rows[r], "corporate_number")]

\* the numbers whose request got an answer with a body, in input order
RECURSIVE Answered(_, _)
Answered(numbers, answers) ==
    IF Len(answers) = 0 THEN <<>>
    ELSE (IF answers[1].kind = "ok" THEN <<numbers[1]>> ELSE <<>>)
         \o Answered(Tail(numbers), Tail(answers))

\* C10: when fetch_data is over, every corporate number has been requested,
\* in order, whatever failed on the way; a wait followed every request; the
\* result has exactly one row per number fetched, in input order, and is
\* the empty table when none was.
C10_EveryNumberFetched ==
    g_pc \in {"done", "raised"} =>
        /\ Len(outcomes) = Len(corporate_numbers)
        /\ waits = Len(outcomes)
        /\ g_pc = "done"
        /\ RowNumbers(results) = Answered(corporate_numbers, outcomes)
        /\ Len(df.rows) = Len(results)
        /\ Len(results) = 0 => df = EmptyFrame

----------------------------------------------------------------------------
(* The whole model: one call of one of the three functions.                *)

Init == ExtractInit \/ SearchInit \/ GbizInit

Next == ExtractNext \/ SearchNext \/ GbizNext

Spec == Init /\ [][Next]_vars

====
